---- MODULE Spec2Model ----
(***************************************************************************)
(* Model of the multi-provider completion gateway of nexus-backend         *)
(* (src/services/ai_provider.py): AIProviderManager.generate with its      *)
(* failover loop, the in-memory provider_stats, and the ai_requests ledger *)
(* written by _log_request.                                                *)
(*                                                                         *)
(* generate is a coroutine.  It suspends at `await self._call_provider`    *)
(* and at `await self._log_request`; the code between two suspension       *)
(* points runs atomically on the event loop, so each action below is one   *)
(* such stretch of code.                                                   *)
(*                                                                         *)
(* Units: temperatures are in tenths (0.7 is 7); cost_per_1k_tokens is in   *)
(* 1e-5 dollars (0.00059 is 59), so a cost (total_tokens / 1000) * rate is  *)
(* the integer total_tokens * rate in units of 1e-8 dollars.               *)
(***************************************************************************)
EXTENDS Integers, Sequences, FiniteSets, Bags, TLC

\* Number of generate calls (event-loop tasks) in the model.
NumTasks == 2

Tasks == 1..NumTasks

\* Optional[...] arguments: None, or a value.
None == <<>>
Some(v) == <<v>>

\* src/config.py: the process-wide defaults.
AI_TEMPERATURE == 7
AI_MAX_TOKENS == 2048

AiTypes == {"susan", "agnes"}

\* The names of the settings that hold model identifiers.
ModelSettingNames ==
  {"GROQ_MODEL_SUSAN", "GROQ_MODEL_AGNES", "TOGETHER_MODEL_SUSAN",
   "TOGETHER_MODEL_AGNES", "OPENROUTER_MODEL"}

\* The values of the model settings the model starts from: the default (a
\* non-empty identifier, written "model") or the empty string from the
\* environment, for which `if not model` skips the provider.
AllDefault == [n \in ModelSettingNames |-> "model"]

SettingsChoices == [ModelSettingNames -> {"model", ""}]

\* The arguments callers pass for temperature and max_tokens.
ParamChoices ==
  { [temperature |-> None,    max_tokens |-> None],
    [temperature |-> Some(0), max_tokens |-> Some(0)],
    [temperature |-> Some(3), max_tokens |-> Some(5000)],
    [temperature |-> None,    max_tokens |-> Some(9000)] }

\* The requests of a run.  A run is one generate call with any ai_type and any
\* argument choice, or NumTasks concurrent calls with the default arguments,
\* the callers alternating between the two ai_types.
DefaultParams == [temperature |-> None, max_tokens |-> None]

Request(ai, p) ==
  [ai_type |-> ai, temperature |-> p.temperature, max_tokens |-> p.max_tokens]

RequestsOf(cs, t) ==
  IF cs = {1}
  THEN {Request(ai, p) : ai \in AiTypes, p \in ParamChoices}
  ELSE {Request(IF t % 2 = 1 THEN "susan" ELSE "agnes", DefaultParams)}

\* What a provider reports as usage (prompt, completion, total): the counts
\* are the provider's, and its total need not be the sum of the other two.
Usages ==
  { [prompt_tokens |-> 1, completion_tokens |-> 2, total_tokens |-> 3],
    [prompt_tokens |-> 2, completion_tokens |-> 2, total_tokens |-> 5] }

\* The reports explored: every one in the run of one call, the first one in
\* the concurrent runs.
UsagesOf(cs) ==
  IF cs = {1} THEN Usages
  ELSE {[prompt_tokens |-> 1, completion_tokens |-> 2, total_tokens |-> 3]}

\* Number of get_stats calls explored between two steps of generate.
MaxReads == 2

\* str(e) of a failed provider call.
ErrorMessages == {"timeout"}

\* Measured wall-clock latencies, in ms.
Latencies == {12}

VARIABLES
  callers,         \* the tasks that call generate in this run
  settings,        \* the model settings read by __init__
  provider_stats,  \* self.provider_stats
  ledger,          \* the rows committed to ai_requests (a bag: the table has no order)
  pc,              \* where each generate call stands
  args,            \* the arguments of each generate call
  idx,             \* the position of the loop in the sorted provider list
  errors,          \* the local list `errors` of each call
  resp,            \* response_data, elapsed_ms and cost of the success being logged
  result,          \* what the call returned
  calls,           \* history: the provider calls each generate call issued
  responded,       \* history: how many of them got a response or an error
  dropped,         \* history: per provider, log entries that were not committed
  reported,        \* history: the usage the provider reported to each call
  reads,           \* the values get_stats returned since the last step of generate
  router,          \* the last call of IntelligentRouter.route and what it returned
  routed,          \* the calls of route made before the last one, oldest first
  handoff,         \* the last call of suggest_handoff and what it returned
  held             \* the first object get_stats returned, still held by its caller

vars == <<callers, settings, provider_stats, ledger, pc, args, idx, errors, resp, result,
          calls, responded, dropped, reported, reads, router, routed, handoff, held>>

----------------------------------------------------------------------------
\* The provider registry built by __init__, in registration order.
Providers ==
  << [name |-> "groq", susan |-> "GROQ_MODEL_SUSAN", agnes |-> "GROQ_MODEL_AGNES",
      cost_per_1k_tokens |-> 59, priority |-> 1, max_tokens |-> 8192],
     [name |-> "together", susan |-> "TOGETHER_MODEL_SUSAN", agnes |-> "TOGETHER_MODEL_AGNES",
      cost_per_1k_tokens |-> 90, priority |-> 2, max_tokens |-> 8192],
     [name |-> "openrouter", susan |-> "OPENROUTER_MODEL", agnes |-> "OPENROUTER_MODEL",
      cost_per_1k_tokens |-> 100, priority |-> 3, max_tokens |-> 4096] >>

ProviderNames == {Providers[i].name : i \in 1..Len(Providers)}

\* provider["models"].get(ai_type): the model identifier ("" or none: falsy).
ModelOf(provider, ai_type) ==
  IF ai_type = "susan" THEN settings[provider.susan] ELSE settings[provider.agnes]

\* One insertion step of a stable sort: x goes after every element whose key
\* is not larger.
RECURSIVE InsertByPriority(_, _)
InsertByPriority(s, x) ==
  IF s = <<>> THEN <<x>>
  ELSE IF s[Len(s)].priority <= x.priority THEN Append(s, x)
  ELSE Append(InsertByPriority(SubSeq(s, 1, Len(s) - 1), x), s[Len(s)])

RECURSIVE SortedDescending(_)
SortedDescending(s) ==
  IF s = <<>> THEN <<>>
  ELSE Append(SortedDescending(Tail(s)), Head(s))

\* sorted(self.providers, key=lambda x: x["priority"]): ascending and stable.
RECURSIVE SortedByPriority(_)
SortedByPriority(s) ==
  IF s = <<>> THEN <<>>
  ELSE InsertByPriority(SortedByPriority(SubSeq(s, 1, Len(s) - 1)), s[Len(s)])

\* `x or default` on an Optional number: None and 0 are both falsy.
OrDefault(opt, default) ==
  IF opt = None \/ opt[1] = 0 THEN default ELSE opt[1]

\* The local temperature and max_tokens after lines 97-98.
EffTemperature(a) == OrDefault(a.temperature, AI_TEMPERATURE)
EffMaxTokens(a) == OrDefault(a.max_tokens, AI_MAX_TOKENS)

Min(a, b) == IF a <= b THEN a ELSE b

SentMaxTokensUncapped(max_tokens, provider) == max_tokens

\* max_tokens=min(max_tokens, provider["max_tokens"])
SentMaxTokens(max_tokens, provider) == Min(max_tokens, provider.max_tokens)

\* A cost rounded to 6 decimals of a dollar (100 units) before it is used.
CalculateCostRounded(total_tokens, cost_per_1k) ==
  ((total_tokens * cost_per_1k + 50) \div 100) * 100

\* _calculate_cost
CalculateCost(total_tokens, cost_per_1k) == total_tokens * cost_per_1k

----------------------------------------------------------------------------
\* The loop variable's list: the providers in the order generate tries them.
Sorted == SortedByPriority(Providers)

NextConfiguredNoSkip(ai_type, from) ==
  IF from + 1 <= Len(Sorted) THEN from + 1 ELSE 0

NextConfiguredRetry(ai_type, from) ==
  LET S == {j \in from..Len(Sorted) : j >= 1 /\ ModelOf(Sorted[j], ai_type) # ""}
  IN IF S = {} THEN 0 ELSE CHOOSE j \in S : \A k \in S : j <= k

\* The for loop from position `from` on: each provider without a model for
\* ai_type is passed over by `continue`; the position of the next provider
\* that has one, or 0 when the loop runs out.
NextConfigured(ai_type, from) ==
  LET S == {j \in (from + 1)..Len(Sorted) : ModelOf(Sorted[j], ai_type) # ""}
  IN IF S = {} THEN 0 ELSE CHOOSE j \in S : \A k \in S : j <= k

\* The keyword arguments of the _call_provider call of lines 116-123.
CallSent(provider, a) ==
  [provider    |-> provider.name,
   model       |-> ModelOf(provider, a.ai_type),
   temperature |-> EffTemperature(a),
   max_tokens  |-> SentMaxTokens(EffMaxTokens(a), provider)]

CaughtByBareExcept(exc) == TRUE

\* Whether `except Exception` catches exc: asyncio.CancelledError derives from
\* BaseException, every other exception here from Exception.
CaughtByExceptException(exc) == exc # "CancelledError"

LogRequestReraises(exc) == exc

\* What leaves _log_request when exc is raised inside its try block
\* ("none": nothing does, the exception was logged and dropped).
LogRequestRaises(exc) ==
  IF CaughtByExceptException(exc) THEN "none" ELSE exc

FailuresNotCounted(stats, name) == stats

\* A lost update: the counter is written from a value read before the others'
\* increments.
RecordFailureOverwrites(stats, name) ==
  [stats EXCEPT ![name].failures = 1]

\* A failure that also clears the cumulative cost of the provider.
RecordFailureClearsCost(stats, name) ==
  [stats EXCEPT ![name].failures = @ + 1, ![name].total_cost = 0]

\* A failure counted on every provider.
RecordFailureCountsAll(stats, name) ==
  [n \in DOMAIN stats |-> [stats[n] EXCEPT !.failures = @ + 1]]

\* self.provider_stats[name]["failures"] += 1
RecordFailure(stats, name) ==
  [stats EXCEPT ![name].failures = @ + 1]

RecordSuccessCostOnly(stats, name, cost) ==
  [stats EXCEPT ![name].total_cost = @ + cost]

\* Lines 132-133.
RecordSuccess(stats, name, cost) ==
  [stats EXCEPT ![name].successes = @ + 1, ![name].total_cost = @ + cost]

\* errors.append({"provider": ..., "error": error_msg})
AppendError(errs, name, msg) ==
  Append(errs, [provider |-> name, error |-> msg])

\* The provider the loop of call t is at.
Current(t) == Sorted[idx[t]]

\* The AIRequest row _log_request builds for the attempt call t is logging.
LogEntry(t) ==
  IF pc[t] = "log_ok"
  THEN [ai_type           |-> args[t].ai_type,
        provider          |-> Current(t).name,
        model             |-> ModelOf(Current(t), args[t].ai_type),
        prompt_tokens     |-> Some(resp[t][1].usage.prompt_tokens),
        completion_tokens |-> Some(resp[t][1].usage.completion_tokens),
        total_tokens      |-> Some(resp[t][1].usage.total_tokens),
        cost_usd          |-> Some(resp[t][1].cost),
        response_time_ms  |-> Some(resp[t][1].elapsed_ms),
        success           |-> TRUE,
        error_message     |-> None]
  ELSE [ai_type           |-> args[t].ai_type,
        provider          |-> Current(t).name,
        model             |-> ModelOf(Current(t), args[t].ai_type),
        prompt_tokens     |-> None,
        completion_tokens |-> None,
        total_tokens      |-> None,
        cost_usd          |-> None,
        response_time_ms  |-> None,
        success           |-> FALSE,
        error_message     |-> Some(errors[t][Len(errors[t])].error)]

\* A result whose total is recomputed from the other two counts.
ResultOfRecomputed(t) ==
  [content          |-> resp[t][1].content,
   provider         |-> Current(t).name,
   model            |-> ModelOf(Current(t), args[t].ai_type),
   usage            |-> [resp[t][1].usage EXCEPT !.total_tokens =
                           resp[t][1].usage.prompt_tokens
                             + resp[t][1].usage.completion_tokens],
   cost             |-> resp[t][1].cost,
   response_time_ms |-> resp[t][1].elapsed_ms]

\* The dict of lines 149-156.
ResultOf(t) ==
  [content          |-> resp[t][1].content,
   provider         |-> Current(t).name,
   model            |-> ModelOf(Current(t), args[t].ai_type),
   usage            |-> resp[t][1].usage,
   cost             |-> resp[t][1].cost,
   response_time_ms |-> resp[t][1].elapsed_ms]

NoResp == None
NoResult == None

----------------------------------------------------------------------------
\* The pieces of generate between two suspension points.  Each fixes the next
\* value of pc, idx, calls, errors, provider_stats, resp and result.

\* The loop goes on after position `from`: up to the next _call_provider call,
\* or, the list exhausted, to the raise of line 186.
ContinueLoop(t, a, from) ==
  LET j == NextConfigured(a.ai_type, from) IN
  /\ IF j = 0
     THEN /\ pc' = [pc EXCEPT ![t] = "raised"]
          /\ UNCHANGED <<idx, calls>>
     ELSE /\ pc' = [pc EXCEPT ![t] = "calling"]
          /\ idx' = [idx EXCEPT ![t] = j]
          /\ calls' = [calls EXCEPT ![t] = Append(@, CallSent(Sorted[j], a))]
  /\ UNCHANGED <<errors, provider_stats, resp, result>>

\* Lines 125-136: the response is in; cost, stats, then the log call.
SuccessHandler(t, response, elapsed) ==
  LET cost == CalculateCost(response.usage.total_tokens, Current(t).cost_per_1k_tokens) IN
  /\ provider_stats' = RecordSuccess(provider_stats, Current(t).name, cost)
  /\ resp' = [resp EXCEPT ![t] = Some([content |-> response.content,
                                       usage |-> response.usage,
                                       cost |-> cost, elapsed_ms |-> elapsed])]
  /\ pc' = [pc EXCEPT ![t] = "log_ok"]
  /\ UNCHANGED <<idx, calls, errors, result>>

\* Lines 158-169: the except block up to its log call.
FailureHandler(t, msg) ==
  /\ errors' = [errors EXCEPT ![t] = AppendError(@, Current(t).name, msg)]
  /\ provider_stats' = RecordFailure(provider_stats, Current(t).name)
  /\ pc' = [pc EXCEPT ![t] = "log_err"]
  /\ UNCHANGED <<idx, calls, resp, result>>

\* Lines 147-156.
Return(t) ==
  /\ pc' = [pc EXCEPT ![t] = "returned"]
  /\ result' = [result EXCEPT ![t] = Some(ResultOf(t))]
  /\ UNCHANGED <<idx, calls, errors, provider_stats, resp>>

\* exc leaves generate.
Propagate(t, exc) ==
  /\ pc' = [pc EXCEPT ![t] = IF exc = "CancelledError" THEN "cancelled" ELSE "crashed"]
  /\ UNCHANGED <<idx, calls, errors, provider_stats, resp, result>>

\* exc is raised by `await self._call_provider(...)`, inside the try block.
AfterCall(t, exc) ==
  IF CaughtByExceptException(exc) THEN FailureHandler(t, exc) ELSE Propagate(t, exc)

\* `await self._log_request(...)` is over, exc ("none" or an exception) leaving
\* it: inside the try block on the success path, inside the except block on the
\* failure path.
AfterLog(t, exc) ==
  IF exc = "none"
  THEN IF pc[t] = "log_ok" THEN Return(t) ELSE ContinueLoop(t, args[t], idx[t])
  ELSE IF pc[t] = "log_ok" /\ CaughtByExceptException(exc)
       THEN FailureHandler(t, exc)
       ELSE Propagate(t, exc)

\* sum(...) of Python: a left fold from 0 over the values in iteration order.
RECURSIVE PySum(_)
PySum(s) == IF s = <<>> THEN 0 ELSE PySum(SubSeq(s, 1, Len(s) - 1)) + s[Len(s)]

\* [p[field] for p in self.provider_stats.values()]: the dict of line 70 keeps
\* the registration order of the providers.
StatsValues(stats, field) ==
  [i \in 1..Len(Providers) |-> stats[Providers[i].name][field]]

\* A get_stats that counts its own earlier calls as requests.
get_stats_counting(stats) ==
  [providers       |-> stats,
   total_successes |-> PySum(StatsValues(stats, "successes")) + Len(reads),
   total_failures  |-> PySum(StatsValues(stats, "failures")),
   total_cost      |-> PySum(StatsValues(stats, "total_cost"))]

\* A get_stats whose totals leave out the provider registered last.
get_stats_short(stats) ==
  [providers       |-> stats,
   total_successes |-> PySum(SubSeq(StatsValues(stats, "successes"), 1, Len(Providers) - 1)),
   total_failures  |-> PySum(SubSeq(StatsValues(stats, "failures"), 1, Len(Providers) - 1)),
   total_cost      |-> PySum(SubSeq(StatsValues(stats, "total_cost"), 1, Len(Providers) - 1))]

\* get_stats: the dict it returns, as it reads at the return.
get_stats(stats) ==
  [providers       |-> stats,
   total_successes |-> PySum(StatsValues(stats, "successes")),
   total_failures  |-> PySum(StatsValues(stats, "failures")),
   total_cost      |-> PySum(StatsValues(stats, "total_cost"))]

----------------------------------------------------------------------------
Init ==
  /\ \/ callers = {1} /\ settings \in SettingsChoices
     \/ callers = Tasks /\ settings = AllDefault
  /\ provider_stats = [n \in ProviderNames |->
                         [successes |-> 0, failures |-> 0, total_cost |-> 0]]
  /\ ledger = EmptyBag
  /\ pc = [t \in Tasks |-> "idle"]
  /\ args = [t \in Tasks |-> None]
  /\ idx = [t \in Tasks |-> 0]
  /\ errors = [t \in Tasks |-> <<>>]
  /\ resp = [t \in Tasks |-> NoResp]
  /\ result = [t \in Tasks |-> NoResult]
  /\ calls = [t \in Tasks |-> <<>>]
  /\ responded = [t \in Tasks |-> 0]
  /\ dropped = [n \in ProviderNames |-> 0]
  /\ reported = [t \in Tasks |-> None]
  /\ reads = <<>>
  /\ router = None
  /\ routed = <<>>
  /\ handoff = None
  /\ held = None

\* A caller awaits generate(messages, ai_type, temperature=..., max_tokens=...):
\* lines 97-123, up to the first provider call (or to the raise, when no
\* provider has a model for ai_type).
Start(t) ==
  /\ pc[t] = "idle"
  /\ t \in callers
  /\ \E a \in RequestsOf(callers, t) :
       /\ args' = [args EXCEPT ![t] = a]
       /\ ContinueLoop(t, a, 0)
  /\ reads' = <<>>
  /\ UNCHANGED <<callers, settings, ledger, responded, dropped, reported, router,
               routed, handoff, held>>

\* The provider answers: _call_provider returns response_data.
CallReturns(t) ==
  /\ pc[t] = "calling"
  /\ \E u \in UsagesOf(callers), ms \in Latencies :
       /\ SuccessHandler(t, [content |-> "text", usage |-> u], ms)
       /\ reported' = [reported EXCEPT ![t] = Some(u)]
  /\ responded' = [responded EXCEPT ![t] = @ + 1]
  /\ reads' = <<>>
  /\ UNCHANGED <<callers, settings, ledger, args, dropped, router,
               routed, handoff, held>>

\* The provider call raises (network error, timeout of the client library,
\* authentication, rate limit, malformed response).
CallFails(t) ==
  /\ pc[t] = "calling"
  /\ \E msg \in ErrorMessages : AfterCall(t, msg)
  /\ responded' = [responded EXCEPT ![t] = @ + 1]
  /\ reads' = <<>>
  /\ UNCHANGED <<callers, settings, ledger, args, dropped, reported, router,
               routed, handoff, held>>

\* session.commit() succeeds: the row is in ai_requests.
LogCommits(t) ==
  /\ pc[t] \in {"log_ok", "log_err"}
  /\ ledger' = ledger (+) SetToBag({LogEntry(t)})
  /\ AfterLog(t, "none")
  /\ reads' = <<>>
  /\ UNCHANGED <<callers, settings, args, responded, dropped, reported, router,
               routed, handoff, held>>

\* The session or the commit raises: no row is written.
LogFails(t) ==
  /\ pc[t] \in {"log_ok", "log_err"}
  /\ dropped' = [dropped EXCEPT ![Current(t).name] = @ + 1]
  /\ AfterLog(t, LogRequestRaises("DatabaseError"))
  /\ reads' = <<>>
  /\ UNCHANGED <<callers, settings, ledger, args, responded, reported, router,
               routed, handoff, held>>

\* The caller's task is cancelled while generate is suspended: CancelledError
\* is raised at the pending await.  A cancellation that lands in _log_request
\* may come before or after the commit took effect.
Cancel(t) ==
  /\ \/ /\ pc[t] = "calling"
        /\ AfterCall(t, "CancelledError")
        /\ UNCHANGED <<ledger, dropped>>
     \/ /\ pc[t] \in {"log_ok", "log_err"}
        /\ \/ /\ ledger' = ledger (+) SetToBag({LogEntry(t)})
              /\ UNCHANGED dropped
           \/ /\ dropped' = [dropped EXCEPT ![Current(t).name] = @ + 1]
              /\ UNCHANGED ledger
        /\ AfterLog(t, LogRequestRaises("CancelledError"))
  /\ reads' = <<>>
  /\ UNCHANGED <<callers, settings, args, responded, reported, router,
               routed, handoff, held>>

\* A health endpoint calls get_stats (src/api/health.py): a synchronous call,
\* so it runs between two steps of generate.  Explored in the run of one call.
GetStats ==
  /\ callers = {1}
  /\ Len(reads) < MaxReads
  /\ reads' = Append(reads, get_stats(provider_stats))
  /\ held' = IF held = None THEN Some(get_stats(provider_stats)) ELSE held
  /\ UNCHANGED <<callers, settings, provider_stats, ledger, pc, args, idx, errors,
                 resp, result, calls, responded, dropped, reported, router,
                 routed, handoff>>

Next ==
  \/ \E t \in Tasks :
       \/ Start(t)
       \/ CallReturns(t)
       \/ CallFails(t)
       \/ LogCommits(t)
       \/ LogFails(t)
       \/ Cancel(t)
  \/ GetStats

Spec == Init /\ [][Next]_vars

\* What the event loop and the database session guarantee: a log call that
\* is pending ends, by a commit or by an exception.  Nothing in generate
\* makes a provider answer, and nothing makes a caller start or cancel.
FairSpec ==
  Spec /\ \A t \in Tasks : WF_vars(LogCommits(t) \/ LogFails(t))

----------------------------------------------------------------------------
\* Vocabulary of the properties, defined on the registry itself and not on
\* the list generate iterates over.

\* Registration positions.
Positions == 1..Len(Providers)

PositionOf(name) == CHOOSE i \in Positions : Providers[i].name = name

\* Provider i has a model for ai_type.
Configured(i, ai_type) == ModelOf(Providers[i], ai_type) # ""

\* Provider i comes before provider j: lower priority number, registration
\* order among equals.
Precedes(i, j) ==
  \/ Providers[i].priority < Providers[j].priority
  \/ Providers[i].priority = Providers[j].priority /\ i < j

\* The registration positions in priority order.
PriorityOrder ==
  CHOOSE s \in [Positions -> Positions] :
    /\ \A a, b \in Positions : a # b => s[a] # s[b]
    /\ \A a, b \in Positions : a < b => Precedes(s[a], s[b])

\* The names of the providers that have a model for ai_type, in priority order.
ConfiguredInOrder(ai_type) ==
  LET keep == SelectSeq(PriorityOrder, LAMBDA i : Configured(i, ai_type))
  IN [k \in 1..Len(keep) |-> Providers[keep[k]].name]

NamesOf(s) == [k \in 1..Len(s) |-> s[k].provider]

IsPrefix(s, w) == Len(s) <= Len(w) /\ \A k \in 1..Len(s) : s[k] = w[k]

Started(t) == pc[t] # "idle"

\* The providers whose call, issued by generate call t, raised.
FailedOf(t) == {errors[t][k].provider : k \in 1..Len(errors[t])}

\* A provider call of generate call t returned a response.
Succeeded(t) == resp[t] # NoResp

RECURSIVE SumOver(_, _)
SumOver(f, S) ==
  IF S = {} THEN 0
  ELSE LET x == CHOOSE y \in S : TRUE IN f[x] + SumOver(f, S \ {x})

\* The completed attempts (a response or an error came back) on provider n.
AttemptsOn(n) ==
  SumOver([t \in Tasks |->
             Cardinality({k \in 1..responded[t] : calls[t][k].provider = n})], Tasks)

\* The rows of the ledger for provider n.
RowsOf(n) ==
  LET rows == {r \in DOMAIN ledger : r.provider = n}
  IN SumOver([r \in rows |-> ledger[r]], rows)

\* The attempts on provider n whose log call is still pending.
PendingLogs(n) ==
  Cardinality({t \in Tasks : pc[t] \in {"log_ok", "log_err"} /\ Current(t).name = n})

Finished(t) == pc[t] \in {"returned", "raised"}

----------------------------------------------------------------------------
\* C1: a generate call that returns, returns the result of the first provider
\* in priority order (registration order among equal priorities) that has a
\* model for the ai_type and whose call succeeded: every configured provider
\* before it was called and failed; and once a provider call has succeeded the
\* call neither goes on to another provider nor raises.
C1_FirstSuccessWins ==
  \A t \in Tasks :
    /\ pc[t] = "returned" =>
         LET i == PositionOf(result[t][1].provider) IN
         /\ Configured(i, args[t].ai_type)
         /\ result[t][1].provider \notin FailedOf(t)
         /\ \A k \in Positions :
              Precedes(k, i) /\ Configured(k, args[t].ai_type)
                => Providers[k].name \in FailedOf(t)
    /\ Succeeded(t) => pc[t] \in {"log_ok", "returned", "cancelled"}

\* C1 witness: a call returned the result of a provider after an earlier one failed.
C1_Witness ==
  \E t \in Tasks : pc[t] = "returned" /\ Len(errors[t]) >= 1

\* C2: when generate raises the exhaustion error, its error list has exactly
\* one entry per provider configured for the ai_type, in priority order, and
\* none for a provider skipped as unconfigured.
C2_ExhaustedListsConfigured ==
  \A t \in Tasks :
    pc[t] = "raised" => NamesOf(errors[t]) = ConfiguredInOrder(args[t].ai_type)

\* C2 witness: a call raised after two providers failed and one was skipped.
C2_Witness ==
  \E t \in Tasks :
    /\ pc[t] = "raised"
    /\ Len(errors[t]) = 2
    /\ \E i \in Positions : ~Configured(i, args[t].ai_type)

\* C3: the provider calls one generate call has issued are a prefix of the
\* configured providers in priority order (so none is called twice), at most
\* one of them is unanswered, and after a success none is issued.
C3_CallsArePrefix ==
  \A t \in Tasks :
    Started(t) =>
      /\ IsPrefix(NamesOf(calls[t]), ConfiguredInOrder(args[t].ai_type))
      /\ Len(calls[t]) - responded[t] \in {0, 1}
      /\ Succeeded(t) => /\ pc[t] # "calling"
                         /\ responded[t] = Len(calls[t])
                         /\ Len(errors[t]) = Len(calls[t]) - 1

\* C3 witness: one call went through all three providers, the last call in flight.
C3_Witness ==
  \E t \in Tasks : pc[t] = "calling" /\ Len(calls[t]) = 3

\* C4: each provider's successes + failures equals the number of completed
\* attempts on it, and a generate call that returned or raised has completed
\* exactly the calls it issued, all of them to configured providers, so the
\* total count grew by the number of providers it tried.
C4_AttemptsCounted ==
  /\ \A n \in ProviderNames :
       provider_stats[n].successes + provider_stats[n].failures = AttemptsOn(n)
  /\ SumOver([n \in ProviderNames |->
                provider_stats[n].successes + provider_stats[n].failures], ProviderNames)
       = SumOver(responded, Tasks)
  /\ \A t \in Tasks :
       Finished(t) =>
         /\ responded[t] = Len(calls[t])
         /\ \A k \in 1..Len(calls[t]) :
              Configured(PositionOf(calls[t][k].provider), args[t].ai_type)

\* C4 witness: concurrent calls have all finished after at least three attempts.
C4_Witness ==
  /\ Cardinality(callers) >= 2
  /\ \A t \in callers : Finished(t)
  /\ SumOver(responded, Tasks) >= 3

\* C5 as claimed: once the calls have finished, each provider has as many
\* ledger rows as successes + failures.
C5_RowPerAttempt ==
  (\A t \in Tasks : pc[t] = "idle" \/ Finished(t)) =>
    \A n \in ProviderNames :
      RowsOf(n) = provider_stats[n].successes + provider_stats[n].failures

\* C5 amended: every attempt updates the provider's stats exactly once and
\* yields at most one ledger row, none exactly when its write failed or was
\* cancelled: rows + unwritten rows + rows being written = successes + failures.
C5_RowsPlusDropped ==
  \A n \in ProviderNames :
    RowsOf(n) + dropped[n] + PendingLogs(n)
      = provider_stats[n].successes + provider_stats[n].failures

\* C5 witness: the calls have finished, one attempt's row written and another's lost.
C5_Witness ==
  /\ \A t \in callers : Finished(t)
  /\ \E n, m \in ProviderNames : dropped[n] >= 1 /\ RowsOf(m) >= 1

\* The callers whose ai_type provider n has a model for.
CallersOn(n) ==
  Cardinality({t \in callers : Configured(PositionOf(n), args[t].ai_type)})

AllExhausted ==
  Cardinality(callers) >= 2 /\ \A t \in callers : pc[t] = "raised"

\* C6 as claimed: after N concurrent calls whose providers all failed, each
\* provider has N failures and N ledger rows.
C6_NoLostUpdates ==
  AllExhausted =>
    \A n \in ProviderNames :
      /\ provider_stats[n].failures = CallersOn(n)
      /\ RowsOf(n) = CallersOn(n)

\* C6 amended: after N concurrent calls whose providers all failed, each
\* provider has exactly N failures and no success under every interleaving,
\* and N ledger rows less those whose write failed.
C6_FailuresExactRowsUnlessDropped ==
  AllExhausted =>
    \A n \in ProviderNames :
      /\ provider_stats[n].failures = CallersOn(n)
      /\ provider_stats[n].successes = 0
      /\ RowsOf(n) + dropped[n] = CallersOn(n)

\* C6 witness: all concurrent calls raised, with a provider that has a row and a lost row.
C6_Witness ==
  /\ AllExhausted
  /\ \E n \in ProviderNames : dropped[n] >= 1 /\ RowsOf(n) >= 1

\* The last provider call generate call t issued.
LastCall(t) == calls[t][Len(calls[t])]

\* C7: a failed ledger write does not leave generate.  On the success path the
\* call returns the result built from the provider's response, the one it
\* returns after a successful write, and no counter or error entry changes; on
\* the failure path the call goes on to the next configured provider, or
\* raises the exhaustion error when none is left.
C7_LedgerFailureAbsorbed ==
  [][\A t \in Tasks :
       LogFails(t) =>
         IF pc[t] = "log_ok"
         THEN /\ pc'[t] = "returned"
              /\ result'[t] = Some([content          |-> resp[t][1].content,
                                    provider         |-> LastCall(t).provider,
                                    model            |-> LastCall(t).model,
                                    usage            |-> resp[t][1].usage,
                                    cost             |-> resp[t][1].cost,
                                    response_time_ms |-> resp[t][1].elapsed_ms])
              /\ provider_stats' = provider_stats
              /\ errors' = errors
         ELSE LET order == ConfiguredInOrder(args[t].ai_type) IN
              /\ provider_stats' = provider_stats
              /\ errors' = errors
              /\ IF Len(calls[t]) < Len(order)
                 THEN /\ pc'[t] = "calling"
                      /\ Len(calls'[t]) = Len(calls[t]) + 1
                      /\ calls'[t][Len(calls'[t])].provider = order[Len(calls[t]) + 1]
                 ELSE pc'[t] = "raised"]_vars

\* C7 witness: a call returned a provider's result although the row of that
\* attempt was not written.
C7_Witness ==
  \E t \in Tasks :
    /\ pc[t] = "returned"
    /\ dropped[result[t][1].provider] >= 1
    /\ RowsOf(result[t][1].provider) = 0

\* C8: every generate call that started eventually returns or raises, even
\* when a provider never responds.
C8_GenerateTerminates ==
  \A t \in Tasks : Started(t) ~> (pc[t] \in {"returned", "raised", "cancelled"})

\* C9: a cancellation that lands while a provider call is unanswered ends the
\* generate call and changes no counter of any provider and no ledger row.
C9_CancelledCallUnrecorded ==
  [][\A t \in Tasks :
       (pc[t] = "calling" /\ Cancel(t)) =>
         /\ pc'[t] = "cancelled"
         /\ provider_stats' = provider_stats
         /\ ledger' = ledger]_vars

\* C9 witness: a call was cancelled with its last provider call unanswered,
\* after an earlier attempt of it had been recorded.
C9_Witness ==
  \E t \in Tasks :
    /\ pc[t] = "cancelled"
    /\ responded[t] < Len(calls[t])
    /\ responded[t] >= 1

\* C10: the max_tokens sent with every provider call is the smaller of the
\* call's requested max_tokens (the argument, or the default) and the
\* provider's ceiling, hence never above the ceiling.
C10_MaxTokensCapped ==
  \A t \in Tasks : \A k \in 1..Len(calls[t]) :
    LET ceiling   == Providers[PositionOf(calls[t][k].provider)].max_tokens
        requested == EffMaxTokens(args[t])
    IN /\ calls[t][k].max_tokens = IF requested <= ceiling THEN requested ELSE ceiling
       /\ calls[t][k].max_tokens <= ceiling

\* C10 witness: a call was sent a provider's ceiling, the request being above it.
C10_Witness ==
  \E t \in Tasks : \E k \in 1..Len(calls[t]) :
    /\ EffMaxTokens(args[t]) > calls[t][k].max_tokens
    /\ calls[t][k].max_tokens = Providers[PositionOf(calls[t][k].provider)].max_tokens

\* The registry's rate of provider n.
RateOf(n) == Providers[PositionOf(n)].cost_per_1k_tokens

\* The provider whose response generate call t received.
ServedBy(t) == LastCall(t).provider

\* What the successes on provider n add up to, from the providers' reports.
CostOwed(n) ==
  SumOver([t \in Tasks |->
             IF reported[t] # None /\ ServedBy(t) = n
             THEN reported[t][1].total_tokens * RateOf(n) ELSE 0], Tasks)

\* C11: the cost generate returns is (total_tokens / 1000) * cost_per_1k_tokens
\* of the serving provider, on the total the provider reported, and the same
\* unrounded amount is what the cumulative cost of that provider grew by.
C11_CostIsTokensTimesRate ==
  /\ \A t \in Tasks :
       pc[t] = "returned" =>
         result[t][1].cost = reported[t][1].total_tokens * RateOf(result[t][1].provider)
  /\ \A n \in ProviderNames : provider_stats[n].total_cost = CostOwed(n)

\* C11 witness: a call returned a cost on a reported total that is not the sum
\* of the two other counts.
C11_Witness ==
  \E t \in Tasks :
    /\ pc[t] = "returned"
    /\ result[t][1].cost = 5 * RateOf(result[t][1].provider)
    /\ reported[t][1].total_tokens = 5

\* C12 as claimed: in every returned result the three counts are non-negative
\* and total_tokens = prompt_tokens + completion_tokens.
C12_TotalIsSum ==
  \A t \in Tasks :
    pc[t] = "returned" =>
      LET u == result[t][1].usage IN
      /\ u.prompt_tokens >= 0 /\ u.completion_tokens >= 0 /\ u.total_tokens >= 0
      /\ u.total_tokens = u.prompt_tokens + u.completion_tokens

\* C12 amended: the usage of a returned result is the triple the provider
\* reported, none of its counts recomputed, so its total is the sum of the two
\* other counts exactly when the provider's report has it so.
C12_UsageAsReported ==
  \A t \in Tasks :
    pc[t] = "returned" => result[t][1].usage = reported[t][1]

\* C12 witness: a returned result carries a reported total that differs from the sum.
C12_Witness ==
  \E t \in Tasks :
    /\ pc[t] = "returned"
    /\ result[t][1].usage.total_tokens
         # result[t][1].usage.prompt_tokens + result[t][1].usage.completion_tokens

C14_TotalsAreSums ==
  LET Sums(v) ==
        /\ v.total_successes =
             SumOver([n \in ProviderNames |-> v.providers[n].successes], ProviderNames)
        /\ v.total_failures =
             SumOver([n \in ProviderNames |-> v.providers[n].failures], ProviderNames)
        /\ v.total_cost =
             SumOver([n \in ProviderNames |-> v.providers[n].total_cost], ProviderNames)
  IN /\ Sums(get_stats(provider_stats))
     /\ \A k \in 1..Len(reads) : Sums(reads[k])

\* C14 witness: get_stats returned totals over a failure of one provider and a
\* success of the provider registered last.
C14_Witness ==
  /\ reads # <<>>
  /\ reads[1].total_failures >= 1
  /\ reads[1].providers["openrouter"].successes = 1

\* ---------------------------------------------------------------------------
\* The intent router, src/services/ai_router.py.  route is a pure function of
\* the message and the context; it is computed here on the characters of the
\* message and with the floating-point sums of the interpreter.

UpperCase == "ABCDEFGHIJKLMNOPQRSTUVWXYZ"
LowerCase == "abcdefghijklmnopqrstuvwxyz"

\* The lower-case letter of each capital.
LowerOf ==
  [c \in {SubSeq(UpperCase, i, i) : i \in 1..Len(UpperCase)} |->
     LET i == CHOOSE i \in 1..Len(UpperCase) : SubSeq(UpperCase, i, i) = c
     IN SubSeq(LowerCase, i, i)]

\* One character of str.lower().
CharLower(c) == IF c \in DOMAIN LowerOf THEN LowerOf[c] ELSE c

\* message.lower(), line 107.
RECURSIVE lower(_)
lower(s) ==
  IF s = "" THEN ""
  ELSE lower(SubSeq(s, 1, Len(s) - 1)) \o CharLower(SubSeq(s, Len(s), Len(s)))

\* `k in m` of two strings: k occurs in m as a substring.
Contains(k, m) ==
  \E i \in 1..(Len(m) - Len(k) + 1) : SubSeq(m, i, i + Len(k) - 1) = k

\* A Python float (IEEE 754 binary64) v >= 0 is the integer v * 2^55, held in
\* two limbs: v * 2^55 = hi * LimbBase + lo.  Every float below 64 that the
\* router computes is such an integer.
LimbBase == 1073741824

\* 2^53 in units of 2^-55 is hi = 2^23: a sum below it is exact.
ExactBelow == 8388608

\* The float that a literal d/10 of the source denotes.
FloatOfTenths(d) ==
  CASE d = 0  -> [hi |-> 0,        lo |-> 0]
    [] d = 1  -> [hi |-> 3355443,  lo |-> 214748365]
    [] d = 3  -> [hi |-> 10066329, lo |-> 644245094]
    [] d = 5  -> [hi |-> 16777216, lo |-> 0]
    [] d = 6  -> [hi |-> 20132659, lo |-> 214748364]
    [] d = 7  -> [hi |-> 23488102, lo |-> 429496728]
    [] d = 8  -> [hi |-> 26843545, lo |-> 644245096]
    [] d = 9  -> [hi |-> 30198988, lo |-> 858993460]
    [] d = 10 -> [hi |-> 33554432, lo |-> 0]

\* The spacing of the floats around a value with high limb hi, in units of 2^-55.
RECURSIVE Quantum(_)
Quantum(hi) == IF hi < ExactBelow THEN 1 ELSE 2 * Quantum(hi \div 2)

\* x + y of two floats with no rounding.
ExactAdd(x, y) ==
  [hi |-> x.hi + y.hi + ((x.lo + y.lo) \div LimbBase),
   lo |-> (x.lo + y.lo) % LimbBase]

\* Round to the nearest float, ties to even.
RoundToFloat(s) ==
  LET q    == Quantum(s.hi)
      r    == s.lo % q
      down == s.lo - r
      up   == IF 2 * r > q THEN TRUE
              ELSE IF 2 * r < q THEN FALSE
              ELSE (down \div q) % 2 = 1
  IN IF ~up THEN [hi |-> s.hi, lo |-> down]
     ELSE IF down + q = LimbBase THEN [hi |-> s.hi + 1, lo |-> 0]
     ELSE [hi |-> s.hi, lo |-> down + q]

\* x + y of two floats, as `score += weight` computes it.
FloatAdd(x, y) == RoundToFloat(ExactAdd(x, y))

\* x < y of two floats.
FloatLess(x, y) == x.hi < y.hi \/ (x.hi = y.hi /\ x.lo < y.lo)

\* TRAINING_KEYWORDS, lines 19-35, in the order of the dict; weights in tenths.
TRAINING_KEYWORDS ==
  << <<"practice", 10>>, <<"roleplay", 10>>, <<"training", 10>>,
     <<"scenario", 9>>, <<"teach me", 9>>, <<"learn", 8>>,
     <<"how to handle", 9>>, <<"what should i say", 9>>,
     <<"how do i respond", 9>>, <<"objection", 7>>, <<"script", 7>>,
     <<"agnes", 10>>, <<"train", 8>>, <<"rehearse", 9>>, <<"prepare for", 8>> >>

\* SUSAN_KEYWORDS, lines 38-68, in the order of the dict; weights in tenths.
SUSAN_KEYWORDS ==
  << <<"building code", 10>>, <<"manufacturer", 9>>, <<"insurance", 9>>,
     <<"claim", 9>>, <<"adjuster", 9>>, <<"policy", 8>>, <<"coverage", 8>>,
     <<"GAF", 10>>, <<"Owens Corning", 10>>, <<"CertainTeed", 10>>,
     <<"IBC", 10>>, <<"IRC", 10>>, <<"NFPA", 10>>, <<"wind", 6>>,
     <<"hail", 6>>, <<"storm", 6>>, <<"damage", 7>>, <<"susan", 10>>,
     <<"flashing", 8>>, <<"underlayment", 8>>, <<"shingles", 7>>,
     <<"roof", 6>>, <<"photo report", 9>>, <<"iTel", 9>>, <<"template", 7>>,
     <<"documentation", 7>>, <<"estimate", 7>>, <<"complaint", 8>>,
     <<"arbitration", 8>> >>

\* TECHNICAL_QUESTION_PATTERNS, lines 71-77: the literals each pattern matches.
TECHNICAL_QUESTION_PATTERNS ==
  {"what " \o a \o " the " \o b :
      a \in {"is", "are"}, b \in {"code", "requirement", "guideline"}}
  \cup {"how " \o a \o " " \o b :
      a \in {"do", "does"}, b \in {"insurance", "claim", "policy"}}
  \cup {a \o " " \o b :
      a \in {"can", "should", "must"}, b \in {"i", "we", "they"}}
  \cup {"what " \o a \o " " \o b :
      a \in {"does", "is"}, b \in {"GAF", "Owens Corning", "IBC", "IRC"}}
  \cup {"wind speed", "hail size", "storm"}

\* TRAINING_QUESTION_PATTERNS, lines 80-85: the literals each pattern matches.
TRAINING_QUESTION_PATTERNS ==
  {"how " \o a \o " " \o b :
      a \in {"do i", "should i"}, b \in {"handle", "respond", "deal with"}}
  \cup {"what " \o a \o " i say" : a \in {"should", "would", "could"}}
  \cup {"practice", "roleplay", "train", "rehearse"}
  \cup {a \o " " \o b :
      a \in {"help me", "teach me", "show me"}, b \in {"how to", "to"}}

\* _calculate_keyword_score, lines 168-174: the float sum, in dict order, of
\* the weights of the keywords that occur in the message.
RECURSIVE _calculate_keyword_score(_, _)
_calculate_keyword_score(message, keywords) ==
  IF keywords = <<>> THEN FloatOfTenths(0)
  ELSE LET n     == Len(keywords)
           score == _calculate_keyword_score(message, SubSeq(keywords, 1, n - 1))
       IN IF Contains(keywords[n][1], message)
            THEN FloatAdd(score, FloatOfTenths(keywords[n][2]))
            ELSE score

\* _check_patterns, lines 176-181.  Every pattern of lines 71-85 is a
\* concatenation of alternations of literals, so re.search(pattern, message,
\* re.IGNORECASE) finds one of its literals in the message, letter case aside.
_check_patterns(message, patterns) ==
  LET folded == lower(message)
  IN \E p \in patterns : Contains(lower(p), folded)

\* A confidence is the float quotient num / den of two floats; the literals
\* 1.0, 0.9 and 0.5 of lines 111-166 are their own quotient by 1.0.
Quotient(num, den) == [num |-> num, den |-> den]
FloatLiteral(d) == Quotient(FloatOfTenths(d), FloatOfTenths(10))

\* min(c, 1.0), lines 159 and 162: a quotient above 1 is cut to 1.0.
MinWithOne(c) == IF FloatLess(c.den, c.num) THEN FloatLiteral(10) ELSE c

\* What a caller can put in the context dict, as route reads it: the truth
\* value of each flag, the last persona ("" when absent) and the two counters
\* (0 when absent).  `context or {}`, line 106, makes None the empty dict.
MaxStreak == 3
Contexts ==
  [active_training_scenario   : BOOLEAN,
   last_ai                    : {"", "susan", "agnes"},
   agnes_message_count        : 0..MaxStreak,
   susan_message_count        : 0..MaxStreak,
   recent_scenario_completion : BOOLEAN,
   recent_claim_discussion    : BOOLEAN]

EmptyContext ==
  [active_training_scenario   |-> FALSE,
   last_ai                    |-> "",
   agnes_message_count        |-> 0,
   susan_message_count        |-> 0,
   recent_scenario_completion |-> FALSE,
   recent_claim_discussion    |-> FALSE]

\* Rule 1 with the `not in` halves left out.
ExplicitMentionEither(message_lower) ==
  IF Contains("susan", message_lower) THEN "susan"
  ELSE IF Contains("agnes", message_lower) THEN "agnes"
  ELSE ""

\* Rule 1, lines 109-114: the persona named alone in the message, "" if none.
ExplicitMention(message_lower) ==
  IF Contains("susan", message_lower) /\ ~Contains("agnes", message_lower)
    THEN "susan"
  ELSE IF Contains("agnes", message_lower) /\ ~Contains("susan", message_lower)
    THEN "agnes"
  ELSE ""

\* Rule 2 switched off.
ActiveTrainingIgnored(context) == FALSE

\* Rule 2, lines 116-118.
ActiveTraining(context) == context.active_training_scenario

\* Rule 3 with a streak of 4 asked for.
ContinuityLate(context) ==
  IF context.last_ai = "agnes" /\ context.agnes_message_count > 3 THEN "agnes"
  ELSE IF context.last_ai = "susan" /\ context.susan_message_count > 3 THEN "susan"
  ELSE ""

\* Rule 3, lines 120-131: the persona kept by continuity, "" if none.
Continuity(context) ==
  IF context.last_ai = "agnes" /\ context.agnes_message_count >= 3 THEN "agnes"
  ELSE IF context.last_ai = "susan" /\ context.susan_message_count >= 3 THEN "susan"
  ELSE ""

\* training_score after lines 134, 141-142 and 147-149.
TrainingScore(message_lower, context) ==
  LET kw  == _calculate_keyword_score(message_lower, TRAINING_KEYWORDS)
      pat == IF _check_patterns(message_lower, TRAINING_QUESTION_PATTERNS)
               THEN FloatAdd(kw, FloatOfTenths(5)) ELSE kw
  IN IF context.recent_scenario_completion
       THEN FloatAdd(pat, FloatOfTenths(3)) ELSE pat

\* technical_score after lines 135, 143-144 and 151-153.
TechnicalScore(message_lower, context) ==
  LET kw  == _calculate_keyword_score(message_lower, SUSAN_KEYWORDS)
      pat == IF _check_patterns(message_lower, TECHNICAL_QUESTION_PATTERNS)
               THEN FloatAdd(kw, FloatOfTenths(5)) ELSE kw
  IN IF context.recent_claim_discussion
       THEN FloatAdd(pat, FloatOfTenths(3)) ELSE pat

Routed(ai, reason, confidence) ==
  [ai |-> ai, reason |-> reason, confidence |-> confidence]

\* Step 7 dividing by the other score, with no min.
DecideByLoser(training_score, technical_score) ==
  IF FloatLess(technical_score, training_score)
    THEN Routed("agnes", "Training intent detected",
                Quotient(training_score,
                         FloatAdd(technical_score, FloatOfTenths(1))))
  ELSE IF FloatLess(training_score, technical_score)
    THEN Routed("susan", "Technical/insurance intent detected",
                Quotient(technical_score,
                         FloatAdd(training_score, FloatOfTenths(1))))
  ELSE Routed("susan", "Default routing (no strong signal)", FloatLiteral(5))

\* Step 7 with the lower score winning.
DecideLower(training_score, technical_score) ==
  LET sum == FloatAdd(FloatAdd(training_score, technical_score), FloatOfTenths(1))
  IN IF FloatLess(training_score, technical_score)
       THEN Routed("agnes", "Training intent detected",
                   MinWithOne(Quotient(training_score, sum)))
     ELSE IF FloatLess(technical_score, training_score)
       THEN Routed("susan", "Technical/insurance intent detected",
                   MinWithOne(Quotient(technical_score, sum)))
     ELSE Routed("susan", "Default routing (no strong signal)", FloatLiteral(5))

\* Step 7 with 1.0 added to the divisor in place of 0.1.
DecideWideEpsilon(training_score, technical_score) ==
  LET sum == FloatAdd(FloatAdd(training_score, technical_score), FloatOfTenths(10))
  IN IF FloatLess(technical_score, training_score)
       THEN Routed("agnes", "Training intent detected",
                   MinWithOne(Quotient(training_score, sum)))
     ELSE IF FloatLess(training_score, technical_score)
       THEN Routed("susan", "Technical/insurance intent detected",
                   MinWithOne(Quotient(technical_score, sum)))
     ELSE Routed("susan", "Default routing (no strong signal)", FloatLiteral(5))

\* Step 7, lines 155-166.
Decide(training_score, technical_score) ==
  LET sum == FloatAdd(FloatAdd(training_score, technical_score), FloatOfTenths(1))
  IN IF FloatLess(technical_score, training_score)
       THEN Routed("agnes", "Training intent detected",
                   MinWithOne(Quotient(training_score, sum)))
     ELSE IF FloatLess(training_score, technical_score)
       THEN Routed("susan", "Technical/insurance intent detected",
                   MinWithOne(Quotient(technical_score, sum)))
     ELSE Routed("susan", "Default routing (no strong signal)", FloatLiteral(5))

\* route with the tie default following the persona of the call before.
routeRemembering(message, context) ==
  LET message_lower == lower(message)
      named         == ExplicitMention(message_lower)
      kept          == Continuity(context)
      decided       == Decide(TrainingScore(message_lower, context),
                              TechnicalScore(message_lower, context))
  IN IF named = "susan" THEN Routed("susan", "Explicit mention of Susan", FloatLiteral(10))
     ELSE IF named = "agnes" THEN Routed("agnes", "Explicit mention of Agnes", FloatLiteral(10))
     ELSE IF ActiveTraining(context)
       THEN Routed("agnes", "Active training scenario in progress", FloatLiteral(10))
     ELSE IF kept = "agnes"
       THEN Routed("agnes", "Training session continuity", FloatLiteral(9))
     ELSE IF kept = "susan"
       THEN Routed("susan", "Technical consultation continuity", FloatLiteral(9))
     ELSE IF router # None /\ decided.confidence = FloatLiteral(5)
       THEN [decided EXCEPT !.ai = router[1].out.ai]
     ELSE decided

\* route, lines 87-166.
route(message, context) ==
  LET message_lower == lower(message)
      named         == ExplicitMention(message_lower)
      kept          == Continuity(context)
  IN IF named = "susan" THEN Routed("susan", "Explicit mention of Susan", FloatLiteral(10))
     ELSE IF named = "agnes" THEN Routed("agnes", "Explicit mention of Agnes", FloatLiteral(10))
     ELSE IF ActiveTraining(context)
       THEN Routed("agnes", "Active training scenario in progress", FloatLiteral(10))
     ELSE IF kept = "agnes"
       THEN Routed("agnes", "Training session continuity", FloatLiteral(9))
     ELSE IF kept = "susan"
       THEN Routed("susan", "Technical consultation continuity", FloatLiteral(9))
     ELSE Decide(TrainingScore(message_lower, context),
                 TechnicalScore(message_lower, context))

\* The messages routed: none, no signal, one name, both names, names in
\* capitals, keywords inside longer words, ties, and one-sided scores.
Messages ==
  {"", "hello there",
   "Susan, help me practice roleplay", "I want to practice a scenario with Agnes",
   "AGNES", "susan or agnes?", "let Susan and Agnes practice roleplay",
   "objection shingles", "train wind damage", "learn wind damage",
   "What does IBC require for flashing?", "how do i handle this objection",
   "is hail damage covered by my policy", "PRACTICE ROLEPLAY",
   "brainstorm", "can we rehearse the adjuster script",
   "teach me to read a roof estimate", "GAF", "script policy"}

\* A caller evaluates route(message, context).
Route(message, context) ==
  /\ callers = {}
  /\ router = None
  /\ router' = Some([message |-> message, context |-> context,
                     out |-> route(message, context)])
  /\ UNCHANGED <<callers, settings, provider_stats, ledger, pc, args, idx, errors,
                 resp, result, calls, responded, dropped, reported, reads,
                 routed, handoff, held>>

\* The router alone: no generate call is made, the gateway stays as built.
RouterInit ==
  /\ callers = {}
  /\ settings = AllDefault
  /\ provider_stats = [n \in ProviderNames |->
                         [successes |-> 0, failures |-> 0, total_cost |-> 0]]
  /\ ledger = EmptyBag
  /\ pc = [t \in Tasks |-> "idle"]
  /\ args = [t \in Tasks |-> None]
  /\ idx = [t \in Tasks |-> 0]
  /\ errors = [t \in Tasks |-> <<>>]
  /\ resp = [t \in Tasks |-> NoResp]
  /\ result = [t \in Tasks |-> NoResult]
  /\ calls = [t \in Tasks |-> <<>>]
  /\ responded = [t \in Tasks |-> 0]
  /\ dropped = [n \in ProviderNames |-> 0]
  /\ reported = [t \in Tasks |-> None]
  /\ reads = <<>>
  /\ router = None
  /\ routed = <<>>
  /\ handoff = None
  /\ held = None

RouterNext == \E message \in Messages, context \in Contexts : Route(message, context)

RouterSpec == RouterInit /\ [][RouterNext]_vars

\* ---------------------------------------------------------------------------
\* The routing claims, over the one call a behaviour of RouterSpec makes.

RouteCalled == router # None
RoutedMessage == router[1].message
RoutedContext == router[1].context
RouteResult == router[1].out

\* The message names persona p and does not name persona q, in any letter case.
NamesOnly(p, q) ==
  /\ Contains(p, lower(RoutedMessage))
  /\ ~Contains(q, lower(RoutedMessage))

NoExplicitMention == ~NamesOnly("susan", "agnes") /\ ~NamesOnly("agnes", "susan")

\* The persona of the previous turn has handled at least three turns in a row.
StreakOf(p) ==
  /\ RoutedContext.last_ai = p
  /\ (IF p = "agnes" THEN RoutedContext.agnes_message_count
                     ELSE RoutedContext.susan_message_count) >= 3

ScoringReasons ==
  {"Training intent detected", "Technical/insurance intent detected",
   "Default routing (no strong signal)"}

\* C15: a message that names exactly one persona is routed to it with
\* confidence 1.0, whatever the context and the scores; a message that names
\* both is not decided by the explicit-mention rule.
C15_ExplicitMentionWins ==
  RouteCalled =>
    /\ NamesOnly("susan", "agnes") =>
         /\ RouteResult.ai = "susan"
         /\ RouteResult.confidence = FloatLiteral(10)
    /\ NamesOnly("agnes", "susan") =>
         /\ RouteResult.ai = "agnes"
         /\ RouteResult.confidence = FloatLiteral(10)
    /\ (Contains("susan", lower(RoutedMessage)) /\ Contains("agnes", lower(RoutedMessage))) =>
         RouteResult.reason \notin {"Explicit mention of Susan", "Explicit mention of Agnes"}

\* C15 witness: Susan is named in a message full of training keywords, during
\* an active training scenario and an Agnes streak, and Susan is chosen.
C15_Witness ==
  /\ RouteCalled
  /\ RoutedMessage = "Susan, help me practice roleplay"
  /\ RoutedContext.active_training_scenario
  /\ StreakOf("agnes")
  /\ RoutedContext.recent_scenario_completion
  /\ RouteResult.ai = "susan"

\* C16: with no explicit mention, an active training scenario (the one
\* persona-specific session the context can mark) routes to agnes with
\* confidence 1.0, whatever the streaks and the scores.
C16_ActiveSessionWins ==
  (RouteCalled /\ NoExplicitMention /\ RoutedContext.active_training_scenario) =>
    /\ RouteResult.ai = "agnes"
    /\ RouteResult.confidence = FloatLiteral(10)

\* C16 witness: a technical message in a Susan streak goes to agnes because a
\* training scenario is active.
C16_Witness ==
  /\ RouteCalled
  /\ RoutedMessage = "is hail damage covered by my policy"
  /\ RoutedContext.active_training_scenario
  /\ StreakOf("susan")
  /\ RoutedContext.recent_claim_discussion
  /\ RouteResult.ai = "agnes"

\* C17: with no explicit mention and no active session, a streak of at least
\* 3 of the previous persona keeps that persona at confidence 0.9, whatever the
\* scores; with no such streak the decision is made by the scores.
C17_ContinuityKeepsPersona ==
  (RouteCalled /\ NoExplicitMention /\ ~RoutedContext.active_training_scenario) =>
    /\ \A p \in {"susan", "agnes"} :
         StreakOf(p) => /\ RouteResult.ai = p
                        /\ RouteResult.confidence = FloatLiteral(9)
    /\ (~StreakOf("susan") /\ ~StreakOf("agnes")) =>
         /\ RouteResult.reason \in ScoringReasons
         /\ RouteResult = Decide(TrainingScore(lower(RoutedMessage), RoutedContext),
                                 TechnicalScore(lower(RoutedMessage), RoutedContext))

\* C17 witness: a training question after exactly three turns of Susan stays
\* with Susan.
C17_Witness ==
  /\ RouteCalled
  /\ RoutedMessage = "how do i handle this objection"
  /\ RoutedContext.last_ai = "susan"
  /\ RoutedContext.susan_message_count = 3
  /\ RoutedContext.agnes_message_count = 0
  /\ RouteResult.ai = "susan"
  /\ RouteResult.confidence = FloatLiteral(9)

\* The sum of the table weights of the keywords found in the message, in
\* tenths: what the float sum of _calculate_keyword_score approximates.
RECURSIVE WeightSum(_, _)
WeightSum(message, keywords) ==
  IF keywords = <<>> THEN 0
  ELSE WeightSum(message, SubSeq(keywords, 1, Len(keywords) - 1))
       + (IF Contains(keywords[Len(keywords)][1], message)
            THEN keywords[Len(keywords)][2] ELSE 0)

\* The two scores of the routed call as sums of weights and bonuses, in tenths.
TrainingTenths ==
  WeightSum(lower(RoutedMessage), TRAINING_KEYWORDS)
  + (IF _check_patterns(lower(RoutedMessage), TRAINING_QUESTION_PATTERNS) THEN 5 ELSE 0)
  + (IF RoutedContext.recent_scenario_completion THEN 3 ELSE 0)

TechnicalTenths ==
  WeightSum(lower(RoutedMessage), SUSAN_KEYWORDS)
  + (IF _check_patterns(lower(RoutedMessage), TECHNICAL_QUESTION_PATTERNS) THEN 5 ELSE 0)
  + (IF RoutedContext.recent_claim_discussion THEN 3 ELSE 0)

\* The two scores of the routed call as route holds them.
TrainingFloat == TrainingScore(lower(RoutedMessage), RoutedContext)
TechnicalFloat == TechnicalScore(lower(RoutedMessage), RoutedContext)

\* The decision of the routed call is left to the scores (rules 1-3 pass).
DecidedByScores ==
  /\ RouteCalled
  /\ NoExplicitMention
  /\ ~RoutedContext.active_training_scenario
  /\ ~StreakOf("susan")
  /\ ~StreakOf("agnes")

\* C18: a message with no keyword and no pattern under an empty context, and
\* any call decided by the scores whose two scores tie, is routed to susan
\* with confidence 0.5.
C18_TieDefaultsToSusan ==
  /\ (RouteCalled /\ RoutedContext = EmptyContext
        /\ TrainingTenths = 0 /\ TechnicalTenths = 0) =>
       /\ RouteResult.ai = "susan"
       /\ RouteResult.confidence = FloatLiteral(5)
  /\ (DecidedByScores /\ TrainingTenths = TechnicalTenths) =>
       /\ RouteResult.ai = "susan"
       /\ RouteResult.confidence = FloatLiteral(5)

\* C19: when the scores decide and differ, the persona of the higher score is
\* returned with confidence winning / (training + technical + 0.1); scores
\* whose weight sums differ are ordered as their weight sums.
C19_HigherScoreWins ==
  (DecidedByScores /\ TrainingFloat # TechnicalFloat) =>
    LET sum == FloatAdd(FloatAdd(TrainingFloat, TechnicalFloat), FloatOfTenths(1))
    IN /\ FloatLess(TechnicalFloat, TrainingFloat) =>
            /\ RouteResult.ai = "agnes"
            /\ RouteResult.confidence = Quotient(TrainingFloat, sum)
       /\ FloatLess(TrainingFloat, TechnicalFloat) =>
            /\ RouteResult.ai = "susan"
            /\ RouteResult.confidence = Quotient(TechnicalFloat, sum)
       /\ TrainingTenths > TechnicalTenths => FloatLess(TechnicalFloat, TrainingFloat)
       /\ TechnicalTenths > TrainingTenths => FloatLess(TrainingFloat, TechnicalFloat)

\* C19 witness: both scores are positive, the training one is higher, and
\* agnes is returned with the quotient as confidence.
C19_Witness ==
  /\ DecidedByScores
  /\ RoutedMessage = "can we rehearse the adjuster script"
  /\ RoutedContext.recent_claim_discussion
  /\ TrainingTenths = 21
  /\ TechnicalTenths = 17
  /\ RouteResult.ai = "agnes"
  /\ RouteResult.confidence.num = TrainingFloat

\* C20: every call returns susan or agnes and a confidence between 0 and 1.
C20_PersonaAndConfidenceInRange ==
  RouteCalled =>
    /\ RouteResult.ai \in {"susan", "agnes"}
    /\ FloatLess(FloatOfTenths(0), RouteResult.confidence.den)
    /\ ~FloatLess(RouteResult.confidence.num, FloatOfTenths(0))
    /\ ~FloatLess(RouteResult.confidence.den, RouteResult.confidence.num)

\* C20 witness: a one-sided score, where the confidence is highest: 2.5 / 2.6.
C20_Witness ==
  /\ DecidedByScores
  /\ RoutedMessage = "PRACTICE ROLEPLAY"
  /\ RoutedContext = EmptyContext
  /\ TechnicalTenths = 0
  /\ RouteResult.ai = "agnes"
  /\ FloatLess(RouteResult.confidence.num, RouteResult.confidence.den)

----------------------------------------------------------------------------
\* The providers that have no model for the ai_type of call t.
Unconfigured(t) ==
  {Providers[i].name : i \in {j \in Positions : ~Configured(j, args[t].ai_type)}}

\* C23: a provider with no model for the requested ai_type is passed over
\* without effect: generate issues no call to it, adds no entry for it to the
\* error list, leaves its counters alone and writes no row for it, and it goes
\* on to the configured providers instead of raising.
C23_SkippedWithoutEffect ==
  \A t \in Tasks :
    Started(t) =>
      /\ \A n \in Unconfigured(t) :
           /\ \A k \in 1..Len(calls[t]) : calls[t][k].provider # n
           /\ n \notin FailedOf(t)
           /\ callers = {t} =>
                /\ provider_stats[n] = [successes |-> 0, failures |-> 0, total_cost |-> 0]
                /\ RowsOf(n) = 0
                /\ dropped[n] = 0
      /\ ConfiguredInOrder(args[t].ai_type) # <<>> =>
           /\ calls[t] # <<>>
           /\ calls[t][1].provider = ConfiguredInOrder(args[t].ai_type)[1]
      /\ pc[t] = "raised" => Len(errors[t]) = Len(ConfiguredInOrder(args[t].ai_type))

\* C23 witness: groq and together have no model for the ai_type, and the call
\* returned the result of openrouter with no error on its list.
C23_Witness ==
  \E t \in Tasks :
    /\ pc[t] = "returned"
    /\ Unconfigured(t) = {"groq", "together"}
    /\ result[t][1].provider = "openrouter"
    /\ errors[t] = <<>>
    /\ provider_stats["groq"].failures = 0

\* The ledger may stall: callers start and providers answer, but nothing makes
\* a pending session.commit() of _log_request end.
StalledLedgerSpec ==
  Spec /\ \A t \in Tasks : /\ WF_vars(Start(t))
                           /\ WF_vars(CallReturns(t) \/ CallFails(t))

\* C24: once a provider call of a generate call has succeeded, the call
\* returns its result (unless its caller cancels it), whether or not the
\* ledger write of that attempt ever ends.
C24_ResultNotBlockedByLedger ==
  \A t \in Tasks : Succeeded(t) ~> (pc[t] \in {"returned", "cancelled"})

\* The value a caller supplied for an Optional argument, or the default when
\* the caller supplied none.
SuppliedOr(opt, default) == IF opt = None THEN default ELSE opt[1]

\* C25: the temperature of every provider call is the caller's whenever the
\* caller supplied one (0 included) and settings.AI_TEMPERATURE otherwise; the
\* max_tokens requested is the caller's whenever supplied (0 included) and
\* settings.AI_MAX_TOKENS otherwise, sent capped by the provider's ceiling.
C25_OverrideWheneverSupplied ==
  \A t \in Tasks :
    \A k \in 1..Len(calls[t]) :
      /\ calls[t][k].temperature = SuppliedOr(args[t].temperature, AI_TEMPERATURE)
      /\ calls[t][k].max_tokens =
           Min(SuppliedOr(args[t].max_tokens, AI_MAX_TOKENS),
               Providers[PositionOf(calls[t][k].provider)].max_tokens)

\* The costs of the results generate has returned from provider n.
ReturnedCost(n) ==
  SumOver([t \in Tasks |->
             IF pc[t] = "returned" /\ result[t][1].provider = n
             THEN result[t][1].cost ELSE 0], Tasks)

\* The costs of the responses of provider n whose result is not returned: the
\* call is at its ledger write, or it was cancelled there.
UnreturnedCost(n) ==
  SumOver([t \in Tasks |->
             IF Succeeded(t) /\ pc[t] # "returned" /\ ServedBy(t) = n
             THEN resp[t][1].cost ELSE 0], Tasks)

AttemptFails(t) == pc[t] = "calling" /\ pc'[t] = "log_err"

\* A row of a failed attempt: success is false, the counts, the cost and the
\* latency are null.
FailureRow(r) ==
  /\ ~r.success
  /\ r.prompt_tokens = None /\ r.completion_tokens = None /\ r.total_tokens = None
  /\ r.cost_usd = None
  /\ r.response_time_ms = None

\* C28: a failed attempt on a provider adds one to that provider's failures
\* and changes no other counter of any provider; no counter of failures
\* changes otherwise; and the row written for the attempt has success false
\* and null usage, cost and latency.
C28_FailureTouchesOnlyFailures ==
  [][/\ \A t \in Tasks :
          AttemptFails(t) =>
            provider_stats' =
              [provider_stats EXCEPT ![Current(t).name].failures = @ + 1]
     /\ (\E n \in ProviderNames : provider_stats'[n].failures # provider_stats[n].failures)
          => \E t \in Tasks : AttemptFails(t)
     /\ \A t \in Tasks :
          (pc[t] = "log_err" /\ pc'[t] # "log_err" /\ ledger' # ledger) =>
            \E r \in DOMAIN ledger' :
              /\ ledger' = ledger (+) SetToBag({r})
              /\ FailureRow(r)
              /\ r.provider = Current(t).name
              /\ r.error_message # None
     /\ \A r \in DOMAIN ledger' : ~r.success => FailureRow(r)]_vars

\* C28 witness: a provider that served one call failed another: it has a
\* success, a cost, a failure and a failure row.
C28_Witness ==
  \E n \in ProviderNames :
    /\ provider_stats[n].successes = 1
    /\ provider_stats[n].total_cost > 0
    /\ provider_stats[n].failures = 1
    /\ \E r \in DOMAIN ledger : r.provider = n /\ ~r.success

\* The object get_stats returned, as its holder reads it now: "providers" is
\* self.provider_stats itself (line 290), not a copy, so it shows the current
\* counters; the three totals are numbers computed when get_stats ran.
Seen(obj) == [obj EXCEPT !.providers = provider_stats]

\* C29: the object get_stats returned is not changed by a later generate
\* call, and its totals keep equalling the sums of its per-provider entries.
C29_ReturnedStatsAreSnapshot ==
  held # None =>
    LET v == Seen(held[1]) IN
    /\ v = held[1]
    /\ v.total_successes =
         SumOver([n \in ProviderNames |-> v.providers[n].successes], ProviderNames)
    /\ v.total_failures =
         SumOver([n \in ProviderNames |-> v.providers[n].failures], ProviderNames)
    /\ v.total_cost =
         SumOver([n \in ProviderNames |-> v.providers[n].total_cost], ProviderNames)

\* ---------------------------------------------------------------------------
\* Float division, for the confidence min(w / (a + b + 0.1), 1.0) as a value.

\* x - y of two floats with x >= y, with no rounding.
ExactSub(x, y) ==
  IF x.lo >= y.lo THEN [hi |-> x.hi - y.hi, lo |-> x.lo - y.lo]
  ELSE [hi |-> x.hi - y.hi - 1, lo |-> x.lo + LimbBase - y.lo]

\* The number of binary digits after the point of the unit 2^-55.
FractionBits == 55

\* How many times d goes into n.
RECURSIVE WholePart(_, _)
WholePart(n, d) == IF FloatLess(n, d) THEN 0 ELSE 1 + WholePart(ExactSub(n, d), d)

RECURSIVE TimesWhole(_, _)
TimesWhole(d, k) == IF k = 0 THEN [hi |-> 0, lo |-> 0] ELSE ExactAdd(TimesWhole(d, k - 1), d)

\* One more binary digit of a division by d: s.q holds the digits so far,
\* s.r < d what is left of the dividend and s.bits the digits still to come.
DivideBit(s, d) ==
  LET r2 == ExactAdd(s.r, s.r)
      q2 == ExactAdd(s.q, s.q)
  IN IF FloatLess(r2, d)
       THEN [q |-> q2, r |-> r2, bits |-> s.bits - 1]
       ELSE [q |-> ExactAdd(q2, [hi |-> 0, lo |-> 1]), r |-> ExactSub(r2, d),
             bits |-> s.bits - 1]

FiveBits(s, d) ==
  DivideBit(DivideBit(DivideBit(DivideBit(DivideBit(s, d), d), d), d), d)

\* The s.bits binary digits (a multiple of five) of a division by d.
RECURSIVE LongDivision(_, _)
LongDivision(s, d) ==
  IF s.bits = 0 THEN s ELSE LongDivision(FiveBits(s, d), d)

\* n / d of two floats, d > 0: the exact quotient rounded to the nearest
\* float, ties to even.
FloatDivide(n, d) ==
  LET w    == WholePart(n, d)
      div  == LongDivision([q |-> [hi |-> 0, lo |-> w],
                            r |-> ExactSub(n, TimesWhole(d, w)),
                            bits |-> FractionBits], d)
      q    == div.q
      rem  == div.r
      g    == Quantum(q.hi)
      low  == q.lo % g
      down == q.lo - low
      odd  == (down \div g) % 2 = 1
      rem2 == ExactAdd(rem, rem)
      up   == IF g = 1
                THEN FloatLess(d, rem2) \/ (rem2 = d /\ odd)
                ELSE \/ 2 * low > g
                     \/ 2 * low = g /\ (rem # [hi |-> 0, lo |-> 0] \/ odd)
  IN IF ~up THEN [hi |-> q.hi, lo |-> down]
     ELSE IF down + g = LimbBase THEN [hi |-> q.hi + 1, lo |-> 0]
     ELSE [hi |-> q.hi, lo |-> down + g]

\* The float a confidence is.
FloatOf(c) == FloatDivide(c.num, c.den)

\* ---------------------------------------------------------------------------
\* suggest_handoff.

\* to_ai.title() of line 226, on the names route returns.
title(ai) == IF ai = "susan" THEN "Susan" ELSE IF ai = "agnes" THEN "Agnes" ELSE ai

\* _generate_handoff_message, lines 218-226.
_generate_handoff_message(from_ai, to_ai) ==
  IF from_ai = "susan" /\ to_ai = "agnes"
    THEN "It sounds like you'd like to practice this! Let me connect you with Agnes for some roleplay training. She's great at this!"
  ELSE IF from_ai = "agnes" /\ to_ai = "susan"
    THEN "Great practice! For the actual technical details and insurance specifics, let me hand you over to Susan. She's the expert on real-world claims!"
  ELSE "Let me connect you with " \o title(to_ai) \o " for this."

\* confidence >= 0.8 of line 206, on floats.
AtLeastTenths(confidence, d) == ~FloatLess(FloatOf(confidence), FloatOfTenths(d))

\* suggest_handoff without the test of the current persona.
suggest_handoffAnyPersona(current_ai, message, conversation_length) ==
  IF conversation_length < 3 THEN None
  ELSE LET optimal == route(message, EmptyContext)
       IN IF AtLeastTenths(optimal.confidence, 8)
            THEN Some([suggested_ai |-> optimal.ai,
                       reason |-> optimal.reason,
                       confidence |-> optimal.confidence,
                       message |-> _generate_handoff_message(current_ai, optimal.ai)])
          ELSE None

\* suggest_handoff, lines 183-216: route is called with the message alone.
suggest_handoff(current_ai, message, conversation_length) ==
  IF conversation_length < 3 THEN None
  ELSE LET optimal == route(message, EmptyContext)
       IN IF optimal.ai # current_ai /\ AtLeastTenths(optimal.confidence, 8)
            THEN Some([suggested_ai |-> optimal.ai,
                       reason |-> optimal.reason,
                       confidence |-> optimal.confidence,
                       message |-> _generate_handoff_message(current_ai, optimal.ai)])
          ELSE None

\* The longest conversation a handoff is asked for.
MaxTurns == 4

\* The persona now answering: one of the two, or a name route never returns.
CurrentPersonas == {"susan", "agnes", "coach"}

\* Messages, and one whose scores give 2.4 / 3.0, just under 0.8 in floats.
HandoffMessages == Messages \cup {"can i roleplay a scenario"}

\* A caller evaluates suggest_handoff(current_ai, message, conversation_length).
SuggestHandoff(current_ai, message, conversation_length) ==
  /\ callers = {}
  /\ handoff = None
  /\ handoff' = Some([current_ai |-> current_ai, message |-> message,
                      conversation_length |-> conversation_length,
                      out |-> suggest_handoff(current_ai, message,
                                              conversation_length)])
  /\ UNCHANGED <<callers, settings, provider_stats, ledger, pc, args, idx, errors,
                 resp, result, calls, responded, dropped, reported, reads,
                 router, routed, held>>

HandoffNext ==
  \E current_ai \in CurrentPersonas, message \in HandoffMessages,
     conversation_length \in 0..MaxTurns :
    SuggestHandoff(current_ai, message, conversation_length)

HandoffSpec == RouterInit /\ [][HandoffNext]_vars

\* C22: suggest_handoff returns a suggestion exactly when the conversation
\* has at least 3 turns and route(message) names a persona other than the
\* current one with confidence at least 0.8; the suggestion names that
\* persona and carries that confidence; otherwise nothing is returned.
C22_HandoffExactlyWhenConfidentOther ==
  handoff # None =>
    LET h       == handoff[1]
        optimal == route(h.message, EmptyContext)
        wanted  == /\ h.conversation_length >= 3
                   /\ optimal.ai # h.current_ai
                   /\ ~FloatLess(FloatOf(optimal.confidence), FloatOfTenths(8))
    IN /\ (h.out # None) <=> wanted
       /\ h.out # None => /\ h.out[1].suggested_ai = optimal.ai
                          /\ h.out[1].confidence = optimal.confidence

C22_Witness ==
  /\ handoff # None
  /\ handoff[1].current_ai = "susan"
  /\ handoff[1].message = "PRACTICE ROLEPLAY"
  /\ handoff[1].conversation_length = 3
  /\ handoff[1].out # None
  /\ handoff[1].out[1].suggested_ai = "agnes"

\* ---------------------------------------------------------------------------
\* The confidence of a decision by scores against 0.5.

\* The confidence of the routed call is above 0.5, as floats.
AboveHalf == FloatLess(FloatOfTenths(5), FloatOf(RouteResult.confidence))

\* The distance of the two weight sums of the routed call, in tenths.
GapTenths ==
  IF TrainingTenths >= TechnicalTenths THEN TrainingTenths - TechnicalTenths
  ELSE TechnicalTenths - TrainingTenths

\* The routed call carries signals for one persona only.
OneSided ==
  \/ TrainingTenths > 0 /\ TechnicalTenths = 0
  \/ TechnicalTenths > 0 /\ TrainingTenths = 0

\* C30 as stated: whenever the scores decide and differ, the confidence
\* returned is strictly greater than 0.5.
C30_WinnerAboveHalf ==
  (DecidedByScores /\ TrainingFloat # TechnicalFloat) => AboveHalf

\* C30: when the scores decide and differ, the confidence returned is above
\* 0.5 if the weight sums are more than 0.1 apart, in particular if only one
\* persona has signals, and at most 0.5 if they are 0.1 apart or less.
C30_AboveHalfBeyondEpsilon ==
  (DecidedByScores /\ TrainingFloat # TechnicalFloat) =>
    /\ GapTenths >= 2 => AboveHalf
    /\ OneSided => /\ AboveHalf
                   /\ TrainingTenths > 0 => RouteResult.ai = "agnes"
                   /\ TechnicalTenths > 0 => RouteResult.ai = "susan"
    /\ GapTenths <= 1 => ~AboveHalf

C30_Witness ==
  /\ DecidedByScores
  /\ RoutedMessage = "What does IBC require for flashing?"
  /\ RoutedContext = EmptyContext
  /\ OneSided
  /\ RouteResult.ai = "susan"
  /\ AboveHalf

\* ---------------------------------------------------------------------------
\* Letter case in the keyword tables.

\* A keyword table with every phrase in lower case.
LowerCased(keywords) ==
  [i \in DOMAIN keywords |-> <<lower(keywords[i][1]), keywords[i][2]>>]

\* C26: the keyword score route computes for each persona counts every phrase
\* of the persona's table that occurs in the message in any letter case.
C26_KeywordsMatchInAnyCase ==
  RouteCalled =>
    /\ _calculate_keyword_score(lower(RoutedMessage), SUSAN_KEYWORDS)
         = _calculate_keyword_score(lower(RoutedMessage), LowerCased(SUSAN_KEYWORDS))
    /\ _calculate_keyword_score(lower(RoutedMessage), TRAINING_KEYWORDS)
         = _calculate_keyword_score(lower(RoutedMessage), LowerCased(TRAINING_KEYWORDS))

\* ---------------------------------------------------------------------------
\* route called again and again on the one router of the process.

\* The caller's context dict after route returned: line 106 rebinds the local
\* name only, and lines 117-153 read the dict with .get.
ContextAfterRoute(context) == context

\* The number of calls of route followed.
MaxCalls == 3

RepeatMessages ==
  {"hello there", "PRACTICE ROLEPLAY", "is hail damage covered by my policy"}

RepeatContexts ==
  {EmptyContext, [EmptyContext EXCEPT !.recent_scenario_completion = TRUE]}

\* A caller evaluates route(message, context) after the calls made so far.
RouteAgain(message, context) ==
  /\ callers = {}
  /\ Len(routed) + (IF router = None THEN 0 ELSE 1) < MaxCalls
  /\ routed' = IF router = None THEN routed ELSE Append(routed, router[1])
  /\ router' = Some([message |-> message, context |-> context,
                     out |-> route(message, context),
                     context_after |-> ContextAfterRoute(context)])
  /\ UNCHANGED <<callers, settings, provider_stats, ledger, pc, args, idx, errors,
                 resp, result, calls, responded, dropped, reported, reads,
                 handoff, held>>

RepeatNext ==
  \E message \in RepeatMessages, context \in RepeatContexts :
    RouteAgain(message, context)

RepeatSpec == RouterInit /\ [][RepeatNext]_vars

\* Every call of route made so far, oldest first.
RouteCalls == IF router = None THEN routed ELSE Append(routed, router[1])

====
